---------------------------- MODULE Spec2Model ----------------------------
(***************************************************************************)
(* A model of the TwoAPI format-conversion worker (src/unnamed/part_001,   *)
(* the current worker.js): the event-stream reframer (processStreamData,   *)
(* processStreamLine, convertStreamChunk) and the request path             *)
(* (handleRequest, convertRequest, applyModelMapping).                     *)
(*                                                                         *)
(* Text is a sequence of symbols.  A symbol is [ch |-> s], one character   *)
(* or one run of characters the code never looks inside ("data:",          *)
(* "[DONE]"), or [json |-> d], the canonical serialisation of document d   *)
(* as JSON.stringify writes it.  Bytes on the wire are the same symbols,   *)
(* except that the two-byte character e-acute travels as a lead and a      *)
(* continuation byte.                                                      *)
(***************************************************************************)
EXTENDS Integers, Sequences, FiniteSets, TLC

VARIABLES
    sourceFormat,   \* processStreamData's sourceFormat
    targetFormat,   \* processStreamData's targetFormat
    stream,         \* every byte the upstream body will deliver
    pos,            \* how many of them reader.read has delivered
    decoderPending, \* TextDecoder: a lead byte awaits its continuation
    buffer,         \* processStreamData's buffer
    lines,          \* the lines the for-of loop has still to process
    line,           \* the line processStreamLine is working on
    tail,           \* the residual buffer is being processed (line 862)
    pc,             \* where processStreamData stands
    site,           \* the source line of the write that is pending
    writes,         \* every writer.write call so far, with its outcome
    writerState,    \* "writable", "errored" or "closed"
    readerState,    \* "locked", "released" or "cancelled"
    closeCalls,     \* calls of writer.close
    readFailed,     \* reader.read has rejected
    cut,            \* history: some read ended inside a line
    request,        \* handleRequest's request: method, path, headers, body
    hpc,            \* where handleRequest stands
    sent,           \* the bodies handed to fetch, in order
    status,         \* the status of the Response handleRequest returns
    via,            \* how that Response was produced
    ir,             \* a ChatRequest in the standard format
    protocol,       \* the format it is converted to and back from
    wire,           \* fromStandardFormat(ir, protocol)
    back,           \* toStandardFormat(wire, protocol)
    rpc,            \* where the conversion there and back stands
    call,           \* a call of an adapter function: its name and arguments
    ret,            \* what the call returned, or that it threw
    cpc             \* where the call stands

streamVars == <<sourceFormat, targetFormat, stream, pos, decoderPending, buffer,
                lines, line, tail, pc, site, writes, writerState, readerState,
                closeCalls, readFailed, cut>>

reqVars == <<request, hpc, sent, status, via>>

tripVars == <<ir, protocol, wire, back, rpc>>

callVars == <<call, ret, cpc>>

vars == <<streamVars, reqVars, tripVars, callVars>>

----------------------------------------------------------------------------
(* Bounds *)

\* A source stream holds at most MaxLines lines.
MaxLines == 2

----------------------------------------------------------------------------
(* Text *)

C(s) == [ch |-> s]
J(d) == [json |-> d]

NL == C("\n")
SP == C(" ")
CR == C("\r")

\* The two bytes of e-acute, the character itself, and U+FFFD with its bytes.
LeadByte == [byte |-> "C3"]
ContByte == [byte |-> "A9"]
EAcute == C("e-acute")
Replacement == C("U+FFFD")
ReplacementBytes == <<[byte |-> "EF"], [byte |-> "BF"], [byte |-> "BD"]>>

\* JSON null and JavaScript undefined, for fields whose values are strings.
Null == "<null>"
Undefined == "<undefined>"

Last(s) == s[Len(s)]
Front(s) == SubSeq(s, 1, Len(s) - 1)

RECURSIVE Flatten(_)
Flatten(ss) == IF ss = <<>> THEN <<>> ELSE Head(ss) \o Flatten(Tail(ss))

\* TextDecoder.decode(value, {stream: true}) from the decoder's pending state.
RECURSIVE DecodeFrom(_, _, _)
DecodeFrom(pending, bytes, acc) ==
    IF bytes = <<>> THEN [text |-> acc, pending |-> pending]
    ELSE LET b == Head(bytes) IN
         IF pending
         THEN IF b = ContByte
              THEN DecodeFrom(FALSE, Tail(bytes), Append(acc, EAcute))
              ELSE DecodeFrom(FALSE, bytes, Append(acc, Replacement))
         ELSE IF b = LeadByte THEN DecodeFrom(TRUE, Tail(bytes), acc)
         ELSE IF b = ContByte
              THEN DecodeFrom(FALSE, Tail(bytes), Append(acc, Replacement))
         ELSE DecodeFrom(FALSE, Tail(bytes), Append(acc, b))

\* The mutant: decode without {stream: true}, a pending lead byte is flushed
\* as U+FFFD at the end of every chunk.
DecodeNoStream(pending, bytes, acc) ==
    LET r == DecodeFrom(FALSE, bytes, acc)
    IN  [text |-> IF r.pending THEN Append(r.text, Replacement) ELSE r.text,
         pending |-> FALSE]

Decode(pending, bytes, acc) == DecodeFrom(pending, bytes, acc)

\* new TextEncoder().encode(text)
RECURSIVE Encode(_)
Encode(text) ==
    IF text = <<>> THEN <<>>
    ELSE LET c == Head(text) IN
         (IF c = EAcute THEN <<LeadByte, ContByte>>
          ELSE IF c = Replacement THEN ReplacementBytes
          ELSE <<c>>) \o Encode(Tail(text))

\* text.split('\n'): the fragments between newlines, at least one.
RECURSIVE SplitFrom(_, _, _)
SplitFrom(text, cur, acc) ==
    IF text = <<>> THEN Append(acc, cur)
    ELSE IF Head(text) = NL THEN SplitFrom(Tail(text), <<>>, Append(acc, cur))
    ELSE SplitFrom(Tail(text), Append(cur, Head(text)), acc)

Split(text) == SplitFrom(text, <<>>, <<>>)

IsSpace(c) == c \in {SP, CR, NL}

\* String.prototype.trim
RECURSIVE TrimStart(_)
TrimStart(text) ==
    IF text # <<>> /\ IsSpace(Head(text)) THEN TrimStart(Tail(text)) ELSE text

RECURSIVE TrimEnd(_)
TrimEnd(text) ==
    IF text # <<>> /\ IsSpace(Last(text)) THEN TrimEnd(Front(text)) ELSE text

Trim(text) == TrimEnd(TrimStart(text))

StartsWith(text, prefix) ==
    Len(text) >= Len(prefix) /\ SubSeq(text, 1, Len(prefix)) = prefix

\* 'data: ', the prefix line.substring(6) removes
DataPrefix == <<C("data:"), SP>>

DoneSentinel == <<C("[DONE]")>>

\* JSON.parse succeeds on the serialisation of a document, with any
\* whitespace around it, and throws a SyntaxError on anything else.
IsJson(text) == LET t == Trim(text) IN Len(t) = 1 /\ "json" \in DOMAIN t[1]

JsonParse(text) == Trim(text)[1].json

JsonStringify(d) == <<J(d)>>


----------------------------------------------------------------------------
(* JavaScript values *)

Has(o, f) == f \in DOMAIN o

\* o.f is truthy, for a field that holds a string
Truthy(o, f) == Has(o, f) /\ o[f] \notin {"", Null, Undefined}

\* o.f || d
OrElse(o, f, d) == IF Truthy(o, f) THEN o[f] ELSE d

\* String.prototype.toLowerCase and toUpperCase on the finish reasons, the
\* runs of a model identifier and the segments of a path
ToLowerCase(s) ==
    CASE s = "STOP" -> "stop"
      [] s = "MAX_TOKENS" -> "max_tokens"
      [] s = "END_TURN" -> "end_turn"
      [] s = "Claude" -> "claude"
      [] s = "-3-Opus" -> "-3-opus"
      [] s = "OpenAI" -> "openai"
      [] s = "Anthropic" -> "anthropic"
      [] OTHER -> s

ToUpperCase(s) ==
    CASE s = "stop" -> "STOP"
      [] s = "max_tokens" -> "MAX_TOKENS"
      [] s = "length" -> "LENGTH"
      [] s = "end_turn" -> "END_TURN"
      [] OTHER -> s

\* Math.floor(Date.now() / 1000): the clock is read once per converted chunk;
\* the model fixes its reading for the run.
Now == "<now>"

Formats == {"openai", "anthropic", "gemini"}

----------------------------------------------------------------------------
(* Stream-chunk adapters *)

StandardChunk(chunk, choices) ==
    [id |-> OrElse(chunk, "id", ""),
     object |-> "chat.completion.chunk",
     created |-> OrElse(chunk, "created", Now),
     model |-> OrElse(chunk, "model", ""),
     choices |-> choices]

\* The anthropic case with the message_stop branch missing.
AnthropicChoicesNoStop(chunk) ==
    IF Has(chunk, "type") /\ chunk.type = "content_block_delta"
    THEN <<[index |-> 0,
            delta |-> [content |-> IF Has(chunk, "delta")
                                   THEN OrElse(chunk.delta, "text", "")
                                   ELSE ""],
            finish_reason |-> Null]>>
    ELSE <<>>

\* streamChunkToStandardFormat, case 'anthropic': the choices
AnthropicChoices(chunk) ==
    IF Has(chunk, "type") /\ chunk.type = "content_block_delta"
    THEN <<[index |-> 0,
            delta |-> [content |-> IF Has(chunk, "delta")
                                   THEN OrElse(chunk.delta, "text", "")
                                   ELSE ""],
            finish_reason |-> Null]>>
    ELSE IF Has(chunk, "type") /\ chunk.type = "message_stop"
    THEN <<[index |-> 0, delta |-> <<>>, finish_reason |-> "stop"]>>
    ELSE <<>>

\* candidate.content?.parts?.[0]?.text || ''
CandidateText(candidate) ==
    IF /\ Has(candidate, "content")
       /\ Has(candidate.content, "parts")
       /\ Len(candidate.content.parts) > 0
    THEN OrElse(candidate.content.parts[1], "text", "")
    ELSE ""

\* streamChunkToStandardFormat, case 'gemini': the choices
GeminiChoices(chunk) ==
    IF Has(chunk, "candidates") /\ Len(chunk.candidates) > 0
    THEN LET candidate == chunk.candidates[1] IN
         <<[index |-> 0,
            delta |-> [content |-> CandidateText(candidate)],
            finish_reason |-> IF Truthy(candidate, "finishReason")
                              THEN ToLowerCase(candidate.finishReason)
                              ELSE Null]>>
    ELSE <<>>

streamChunkToStandardFormat(chunk, format) ==
    CASE format = "openai" -> chunk
      [] format = "anthropic" -> StandardChunk(chunk, AnthropicChoices(chunk))
      [] format = "gemini" -> StandardChunk(chunk, GeminiChoices(chunk))
      [] OTHER -> StandardChunk(chunk, <<>>)

\* standard.choices[0] throws a TypeError when standard has no choices.
FromStandardThrows(standard, format) ==
    format \in {"anthropic", "gemini"} /\ ~Has(standard, "choices")

\* choice?.delta?.content is truthy
HasContent(standard) ==
    /\ Len(standard.choices) > 0
    /\ Has(standard.choices[1], "delta")
    /\ Truthy(standard.choices[1].delta, "content")

\* choice?.finish_reason is truthy
HasFinish(standard) ==
    Len(standard.choices) > 0 /\ Truthy(standard.choices[1], "finish_reason")

streamChunkFromStandardFormat(standard, format) ==
    CASE format = "anthropic" ->
            IF HasContent(standard)
            THEN [type |-> "content_block_delta",
                  index |-> 0,
                  delta |-> [type |-> "text_delta",
                             text |-> standard.choices[1].delta.content]]
            ELSE IF HasFinish(standard)
            THEN [type |-> "message_stop"]
            ELSE standard
      [] format = "gemini" ->
            IF HasContent(standard)
            THEN [candidates |->
                    <<[content |-> [parts |-> <<[text |-> standard.choices[1].delta.content]>>,
                                    role |-> "model"],
                       finishReason |-> IF HasFinish(standard)
                                        THEN ToUpperCase(standard.choices[1].finish_reason)
                                        ELSE Null,
                       index |-> 0]>>]
            ELSE standard
      [] OTHER -> standard

ConvertThrows(chunk, source, target) ==
    source # target
    /\ FromStandardThrows(streamChunkToStandardFormat(chunk, source), target)

convertStreamChunk(chunk, source, target) ==
    IF source = target THEN chunk
    ELSE streamChunkFromStandardFormat(streamChunkToStandardFormat(chunk, source), target)

----------------------------------------------------------------------------
(* What the upstream platforms send *)

OpenAIDelta == [id |-> "chatcmpl-1", object |-> "chat.completion.chunk",
                created |-> "1700000000", model |-> "gpt-4",
                choices |-> <<[index |-> 0, delta |-> [content |-> "He"],
                               finish_reason |-> Null]>>]
OpenAIRole == [id |-> "chatcmpl-1", object |-> "chat.completion.chunk",
               created |-> "1700000000", model |-> "gpt-4",
               choices |-> <<[index |-> 0, delta |-> [role |-> "assistant"],
                              finish_reason |-> Null]>>]
OpenAIFinish == [id |-> "chatcmpl-1", object |-> "chat.completion.chunk",
                 created |-> "1700000000", model |-> "gpt-4",
                 choices |-> <<[index |-> 0, delta |-> <<>>,
                                finish_reason |-> "stop"]>>]
OpenAIError == [error |-> "overloaded"]

AnthropicDelta == [type |-> "content_block_delta", index |-> 0,
                   delta |-> [type |-> "text_delta", text |-> "He"]]
AnthropicDelta2 == [type |-> "content_block_delta", index |-> 0,
                    delta |-> [type |-> "text_delta", text |-> "llo"]]
AnthropicStop == [type |-> "message_stop"]
AnthropicPing == [type |-> "ping"]

GeminiText == [candidates |->
                 <<[content |-> [parts |-> <<[text |-> "He"]>>, role |-> "model"],
                    index |-> 0]>>]
GeminiLast == [candidates |->
                 <<[content |-> [parts |-> <<[text |-> "llo"]>>, role |-> "model"],
                    finishReason |-> "STOP", index |-> 0]>>]
GeminiUsage == [usageMetadata |-> "tokens"]

\* The documents of a format, the last one sent with a space before it.
Docs(format) ==
    CASE format = "openai" -> <<OpenAIDelta, OpenAIRole, OpenAIError, OpenAIFinish>>
      [] format = "anthropic" -> <<AnthropicDelta, AnthropicPing, AnthropicStop>>
      [] format = "gemini" -> <<GeminiText, GeminiUsage, GeminiLast>>

DataLine(d) == DataPrefix \o JsonStringify(d)

BlankLine == <<>>
DoneLine == DataPrefix \o DoneSentinel
EventLine == <<C("event:"), SP, C("x")>>
\* 'data: {' and e-acute: not JSON, and two bytes a read may separate
BrokenLine == DataPrefix \o <<C("{"), LeadByte, ContByte>>

\* The lines a source stream is made of, as bytes.
Catalogue(format) ==
    LET docs == Docs(format) IN
    {BlankLine, DoneLine, EventLine, BrokenLine}
    \cup {DataLine(docs[i]) : i \in 1..(Len(docs) - 1)}
    \cup {DataPrefix \o <<SP>> \o JsonStringify(Last(docs))}

\* The lines joined by newlines; the last one ends in a newline if terminated.
JoinLines(ls, terminated) ==
    Flatten([i \in 1..Len(ls) |->
                IF i < Len(ls) \/ terminated THEN ls[i] \o <<NL>> ELSE ls[i]])

\* A malformed event between two valid ones, and the three events of an
\* Anthropic reply ("He", "llo", message_stop).
LenientLines(format) ==
    <<DataLine(Docs(format)[1]), BrokenLine, DataLine(Last(Docs(format)))>>
AnthropicReplyLines ==
    <<DataLine(AnthropicDelta), DataLine(AnthropicDelta2), DataLine(AnthropicStop)>>

\* A data line without a payload, the sentinel, and a line that is no data line
PassThroughLines == <<DataPrefix, DoneLine, EventLine>>

Scenarios(format) ==
    {LenientLines(format), PassThroughLines}
    \cup (IF format = "anthropic" THEN {AnthropicReplyLines} ELSE {})

Streams(format) ==
    {JoinLines(ls, t) :
        ls \in UNION {[1..n -> Catalogue(format)] : n \in 0..MaxLines}
               \cup Scenarios(format),
        t \in BOOLEAN}

----------------------------------------------------------------------------
(* processStreamLine *)

LineErrorEvent ==
    DataPrefix \o <<C("{\"error\": \"Line processing error: ...\"}"), NL, NL>>
StreamErrorEvent ==
    DataPrefix \o <<C("{\"error\": \"Stream processing error: ...\"}"), NL, NL>>

\* The catch of the inner try writes an error event instead of the line.
FirstWriteCatchReports(l, source, target) ==
    IF Trim(l) = <<>> THEN [site |-> "w884", text |-> <<NL>>]
    ELSE IF StartsWith(l, DataPrefix)
    THEN LET dataStr == SubSeq(l, Len(DataPrefix) + 1, Len(l)) IN
         IF dataStr = DoneSentinel \/ Trim(dataStr) = <<>>
         THEN [site |-> "w894", text |-> l \o <<NL, NL>>]
         ELSE IF IsJson(dataStr) /\ ~ConvertThrows(JsonParse(dataStr), source, target)
         THEN [site |-> "w906",
               text |-> DataPrefix
                        \o JsonStringify(convertStreamChunk(JsonParse(dataStr), source, target))
                        \o <<NL, NL>>]
         ELSE [site |-> "w910", text |-> LineErrorEvent]
    ELSE [site |-> "w914", text |-> l \o <<NL>>]

\* processStreamLine with the blank line added after every line it passes through
FirstWriteSeparatesAll(l, source, target) ==
    IF Trim(l) = <<>> THEN [site |-> "w884", text |-> <<NL>>]
    ELSE IF StartsWith(l, DataPrefix)
    THEN LET dataStr == SubSeq(l, Len(DataPrefix) + 1, Len(l)) IN
         IF dataStr = DoneSentinel \/ Trim(dataStr) = <<>>
         THEN [site |-> "w894", text |-> l \o <<NL, NL>>]
         ELSE IF IsJson(dataStr) /\ ~ConvertThrows(JsonParse(dataStr), source, target)
         THEN [site |-> "w906",
               text |-> DataPrefix
                        \o JsonStringify(convertStreamChunk(JsonParse(dataStr), source, target))
                        \o <<NL, NL>>]
         ELSE [site |-> "w910", text |-> l \o <<NL, NL>>]
    ELSE [site |-> "w914", text |-> l \o <<NL, NL>>]

\* The first write processStreamLine issues for a line, and where.
FirstWrite(l, source, target) ==
    IF Trim(l) = <<>> THEN [site |-> "w884", text |-> <<NL>>]
    ELSE IF StartsWith(l, DataPrefix)
    THEN LET dataStr == SubSeq(l, Len(DataPrefix) + 1, Len(l)) IN
         IF dataStr = DoneSentinel \/ Trim(dataStr) = <<>>
         THEN [site |-> "w894", text |-> l \o <<NL, NL>>]
         ELSE IF IsJson(dataStr) /\ ~ConvertThrows(JsonParse(dataStr), source, target)
         THEN [site |-> "w906",
               text |-> DataPrefix
                        \o JsonStringify(convertStreamChunk(JsonParse(dataStr), source, target))
                        \o <<NL, NL>>]
         ELSE [site |-> "w910", text |-> l \o <<NL, NL>>]
    ELSE [site |-> "w914", text |-> l \o <<NL>>]

WriteCall(w, outcome) == [site |-> w.site, bytes |-> Encode(w.text), status |-> outcome]

\* The writes the catch blocks issue once the write at `at` has rejected.  The
\* writer is errored by then, so each of them rejects in turn: the inner catch
\* (line 910), the outer catch (line 919), the catch of processStreamData
\* (line 867).
RECURSIVE CatchCascade(_, _)
CatchCascade(at, l) ==
    CASE at = "w906" ->
            <<WriteCall([site |-> "w910", text |-> l \o <<NL, NL>>], "rejected")>>
            \o CatchCascade("w910", l)
      [] at \in {"w884", "w894", "w910", "w914"} ->
            <<WriteCall([site |-> "w919", text |-> LineErrorEvent], "rejected")>>
            \o CatchCascade("w919", l)
      [] at = "w919" ->
            <<WriteCall([site |-> "w867", text |-> StreamErrorEvent], "rejected")>>
      [] OTHER -> <<>>

Settle(ws, outcome) == [ws EXCEPT ![Len(ws)].status = outcome]

----------------------------------------------------------------------------
(* processStreamData *)

\* buffer = lines.pop() || '' with the fragment dropped
RetainedDropped(parts) == <<>>

\* buffer = lines.pop() || ''
Retained(parts) == Last(parts)

\* for (const line of lines), taken from the end
LoopLineReversed(ls) == Len(ls)

\* for (const line of lines): the index of the line the loop takes next
LoopLine(ls) == 1

\* processStreamLine called without await: the loop goes on
NotAwaited == "loop"

\* await processStreamLine(...), await writer.write(...): the loop waits
Awaited == "write"

\* the catch block reporting with the message of processStreamLine
CatchWriteLineMessage == [site |-> "w867", text |-> LineErrorEvent]

\* catch (error) { await writer.write(... Stream processing error ...) }
CatchWrite == [site |-> "w867", text |-> StreamErrorEvent]

StreamInit ==
    /\ sourceFormat \in Formats
    /\ targetFormat \in Formats \ {sourceFormat}
    /\ stream \in Streams(sourceFormat)
    /\ pos = 0
    /\ decoderPending = FALSE
    /\ buffer = <<>>
    /\ lines = <<>>
    /\ line = <<>>
    /\ tail = FALSE
    /\ pc = "read"
    /\ site = ""
    /\ writes = <<>>
    /\ writerState = "writable"
    /\ readerState = "locked"
    /\ closeCalls = 0
    /\ readFailed = FALSE
    /\ cut = FALSE

\* reader.read() resolves with the next n bytes
ReadChunk(n) ==
    /\ pc = "read"
    /\ pos + n <= Len(stream)
    /\ LET r == Decode(decoderPending, SubSeq(stream, pos + 1, pos + n), <<>>)
           parts == Split(buffer \o r.text)
       IN  /\ decoderPending' = r.pending
           /\ buffer' = Retained(parts)
           /\ lines' = Front(parts)
           /\ cut' = (cut \/ Last(parts) # <<>> \/ r.pending)
    /\ pos' = pos + n
    /\ pc' = "loop"
    /\ UNCHANGED <<sourceFormat, targetFormat, stream, line, tail, site, writes,
                   writerState, readerState, closeCalls, readFailed>>
    /\ UNCHANGED <<reqVars, tripVars, callVars>>

\* The end of the source with the residual buffer left unprocessed
ReadDoneSkipsResidual ==
    /\ pc = "read"
    /\ pos = Len(stream)
    /\ pc' = "finally"
    /\ UNCHANGED <<sourceFormat, targetFormat, stream, pos, decoderPending, buffer,
                   lines, line, tail, site, writes, writerState, readerState,
                   closeCalls, readFailed, cut>>
    /\ UNCHANGED <<reqVars, tripVars, callVars>>

\* reader.read() resolves with done: the residual buffer, if any, is a line
ReadDone ==
    /\ pc = "read"
    /\ pos = Len(stream)
    /\ IF buffer # <<>>
       THEN lines' = <<buffer>> /\ tail' = TRUE /\ pc' = "loop"
       ELSE lines' = lines /\ tail' = tail /\ pc' = "finally"
    /\ UNCHANGED <<sourceFormat, targetFormat, stream, pos, decoderPending, buffer,
                   line, site, writes, writerState, readerState, closeCalls,
                   readFailed, cut>>
    /\ UNCHANGED <<reqVars, tripVars, callVars>>

\* reader.read() rejects: the catch block writes the error event
ReadFails ==
    /\ pc = "read"
    /\ readFailed' = TRUE
    /\ writes' = Append(writes, WriteCall(CatchWrite, "pending"))
    /\ site' = "w867"
    /\ pc' = "write"
    /\ UNCHANGED <<sourceFormat, targetFormat, stream, pos, decoderPending, buffer,
                   lines, line, tail, writerState, readerState, closeCalls, cut>>
    /\ UNCHANGED <<reqVars, tripVars, callVars>>

\* await processStreamLine(line, ...): up to its first write
ProcessLine ==
    /\ pc = "loop"
    /\ lines # <<>>
    /\ LET i == LoopLine(lines)
           w == FirstWrite(lines[i], sourceFormat, targetFormat)
       IN  /\ line' = lines[i]
           /\ lines' = SubSeq(lines, 1, i - 1) \o SubSeq(lines, i + 1, Len(lines))
           /\ writes' = Append(writes, WriteCall(w, "pending"))
           /\ site' = w.site
    /\ pc' = Awaited
    /\ UNCHANGED <<sourceFormat, targetFormat, stream, pos, decoderPending, buffer,
                   tail, writerState, readerState, closeCalls, readFailed, cut>>
    /\ UNCHANGED <<reqVars, tripVars, callVars>>

\* the for-of loop is through: the next read, or the end after the residual
LoopEnd ==
    /\ pc = "loop"
    /\ lines = <<>>
    /\ pc' = IF tail THEN "finally" ELSE "read"
    /\ UNCHANGED <<sourceFormat, targetFormat, stream, pos, decoderPending, buffer,
                   lines, line, tail, site, writes, writerState, readerState,
                   closeCalls, readFailed, cut>>
    /\ UNCHANGED <<reqVars, tripVars, callVars>>

\* the pending write resolves
WriteResolves ==
    /\ pc = "write"
    /\ writerState = "writable"
    /\ writes' = Settle(writes, "ok")
    /\ pc' = IF site = "w867" THEN "finally" ELSE "loop"
    /\ site' = ""
    /\ UNCHANGED <<sourceFormat, targetFormat, stream, pos, decoderPending, buffer,
                   lines, line, tail, writerState, readerState, closeCalls,
                   readFailed, cut>>
    /\ UNCHANGED <<reqVars, tripVars, callVars>>

\* the pending write rejects, the consumer having gone: every catch block on
\* the way out writes in vain, and the exception leaves through finally
WriteRejects ==
    /\ pc = "write"
    /\ writerState' = "errored"
    /\ writes' = Settle(writes, "rejected") \o CatchCascade(site, line)
    /\ site' = ""
    /\ pc' = "finally"
    /\ UNCHANGED <<sourceFormat, targetFormat, stream, pos, decoderPending, buffer,
                   lines, line, tail, readerState, closeCalls, readFailed, cut>>
    /\ UNCHANGED <<reqVars, tripVars, callVars>>

\* The finally block without the call of close
FinallyWithoutClose ==
    /\ pc = "finally"
    /\ pc' = "done"
    /\ UNCHANGED <<sourceFormat, targetFormat, stream, pos, decoderPending, buffer,
                   lines, line, tail, site, writes, writerState, readerState,
                   closeCalls, readFailed, cut>>
    /\ UNCHANGED <<reqVars, tripVars, callVars>>

\* finally { await writer.close() }
CloseWriter ==
    /\ pc = "finally"
    /\ closeCalls' = closeCalls + 1
    /\ writerState' = IF writerState = "writable" THEN "closed" ELSE writerState
    /\ pc' = "done"
    /\ UNCHANGED <<sourceFormat, targetFormat, stream, pos, decoderPending, buffer,
                   lines, line, tail, site, writes, readerState, readFailed, cut>>
    /\ UNCHANGED <<reqVars, tripVars, callVars>>

\* No stream is being translated.
StreamIdle ==
    /\ sourceFormat = "" /\ targetFormat = ""
    /\ stream = <<>> /\ pos = 0 /\ decoderPending = FALSE
    /\ buffer = <<>> /\ lines = <<>> /\ line = <<>> /\ tail = FALSE
    /\ pc = "idle" /\ site = "" /\ writes = <<>>
    /\ writerState = "writable" /\ readerState = "locked"
    /\ closeCalls = 0 /\ readFailed = FALSE /\ cut = FALSE

CallIdle == call = <<>> /\ ret = <<>> /\ cpc = "idle"

----------------------------------------------------------------------------
(* API_FORMATS *)

Platforms == {"openai", "anthropic", "gemini", "openrouter", "groq"}

\* API_FORMATS[platform].format
PlatformFormat(platform) ==
    CASE platform \in {"openai", "openrouter", "groq"} -> "openai"
      [] platform = "anthropic" -> "anthropic"
      [] platform = "gemini" -> "gemini"

\* Model identifiers, as the runs of characters the code tells apart.
ClaudeSonnet4 == <<"claude", "-sonnet-4">>
ClaudeOpus4 == <<"claude", "-opus-4-20250514">>
ClaudeUpper == <<"Claude", "-3-Opus">>
OpenRouterClaude == <<"anthropic", "/", "claude", "-3.5-sonnet">>
Gpt4 == <<"gpt-4">>
KimiFree == <<"moonshotai/kimi-k2:free">>
KimiInstruct == <<"moonshotai/kimi-k2-instruct">>
GeminiPro == <<"gemini-pro">>

\* API_FORMATS[platform].modelMappings, empty for a platform without one
ModelMappings(platform) ==
    CASE platform = "openrouter" -> [m \in {ClaudeSonnet4, ClaudeOpus4} |-> KimiFree]
      [] platform = "groq" -> [m \in {ClaudeSonnet4, ClaudeOpus4} |-> KimiInstruct]
      [] OTHER -> [m \in {} |-> m]

\* Numbers of the request: temperatures are in tenths.
DefaultMaxTokens == 2048
DefaultTemperature == 7
GroqMaxTokens == 16384

----------------------------------------------------------------------------
(* Requests *)

\* message.content is a string or an array of content parts
Str(text) == [str |-> text]
Arr(parts) == [arr |-> parts]
IsString(content) == Has(content, "str")
IsArray(content) == Has(content, "arr")

\* o.f is truthy, for a field that holds a string or an array
TruthyContent(o, f) == Has(o, f) /\ o[f] # Str("")

Without(o, f) == [k \in DOMAIN o \ {f} |-> o[k]]
With(o, f, v) == [k \in DOMAIN o \cup {f} |-> IF k = f THEN v ELSE o[k]]

Includes(text, run) == \E i \in 1..Len(text) : text[i] = run

\* o.f || d for a number
NumOr(o, f, d) == IF Has(o, f) /\ o[f] # 0 THEN o[f] ELSE d

\* request.model || ''
ModelOr(o) == IF Has(o, "model") THEN o.model ELSE <<>>

Ephemeral == [type |-> "ephemeral"]

\* removeCacheControlFromMessages leaving the messages as they are
RemoveNothing(messages) == messages

\* removeCacheControlFromMessages cleaning the first part of a content only
RemoveFromFirstPart(messages) ==
    [i \in 1..Len(messages) |->
        IF IsArray(messages[i].content)
        THEN [messages[i] EXCEPT !.content =
                Arr([j \in 1..Len(messages[i].content.arr) |->
                        IF j = 1
                        THEN Without(messages[i].content.arr[j], "cache_control")
                        ELSE messages[i].content.arr[j]])]
        ELSE messages[i]]

removeCacheControlFromMessages(messages) ==
    [i \in 1..Len(messages) |->
        IF IsArray(messages[i].content)
        THEN [messages[i] EXCEPT !.content =
                Arr([j \in 1..Len(messages[i].content.arr) |->
                        Without(messages[i].content.arr[j], "cache_control")])]
        ELSE messages[i]]

\* The message addCacheControlToMessages puts in place of a user message.
MarkedMessage(message) ==
    IF IsString(message.content)
    THEN [message EXCEPT !.content =
            Arr(<<[type |-> "text", text |-> message.content.str,
                   cache_control |-> Ephemeral]>>)]
    ELSE IF IsArray(message.content)
    THEN LET content == message.content.arr
             lastTextIndex == Len(content)
         IN  IF lastTextIndex >= 1 /\ content[lastTextIndex].type = "text"
             THEN [message EXCEPT !.content =
                     Arr([content EXCEPT ![lastTextIndex] =
                            With(content[lastTextIndex], "cache_control", Ephemeral)])]
             ELSE message
    ELSE message

addCacheControlToMessages(messages) ==
    LET users == {i \in 1..Len(messages) : messages[i].role = "user"} IN
    IF users = {} THEN messages
    ELSE LET i == CHOOSE u \in users : \A v \in users : v <= u
         IN  [messages EXCEPT ![i] = MarkedMessage(messages[i])]

isClaudeModel(model) ==
    /\ model # <<>>
    /\ LET modelLower == [i \in 1..Len(model) |-> ToLowerCase(model[i])]
       IN  Includes(modelLower, "claude") \/ Includes(modelLower, "anthropic")

\* anthropicBeta && anthropicBeta.includes('prompt-caching'), on the value of
\* headers.get('anthropic-beta'), empty when the header is absent
PromptCachingRequested(anthropicBeta) ==
    anthropicBeta # <<>> /\ Includes(anthropicBeta, "prompt-caching")

\* String(parts) for an array of n objects
RECURSIVE ObjectsToString(_)
ObjectsToString(n) ==
    IF n = 0 THEN ""
    ELSE IF n = 1 THEN "[object Object]"
    ELSE "[object Object]," \o ObjectsToString(n - 1)

\* content.parts.map(part => part.text).join('')
RECURSIVE JoinTexts(_)
JoinTexts(parts) ==
    IF parts = <<>> THEN ""
    ELSE (IF IsString(Head(parts).text) THEN Head(parts).text.str
          ELSE ObjectsToString(Len(Head(parts).text.arr)))
         \o JoinTexts(Tail(parts))

toStandardFormat(req, format) ==
    LET standard == [messages |-> <<>>,
                     model |-> ModelOr(req),
                     max_tokens |-> NumOr(req, "max_tokens", DefaultMaxTokens),
                     temperature |-> NumOr(req, "temperature", DefaultTemperature),
                     stream |-> (Has(req, "stream") /\ req.stream)]
        messages == IF Has(req, "messages") THEN req.messages ELSE <<>>
    IN  CASE format \in {"openai", "openrouter"} ->
                [standard EXCEPT !.messages = messages]
          [] format = "anthropic" ->
                IF TruthyContent(req, "system")
                THEN With([standard EXCEPT !.messages = messages], "system", req.system)
                ELSE [standard EXCEPT !.messages = messages]
          [] format = "gemini" ->
                [standard EXCEPT
                    !.messages =
                        IF Has(req, "contents")
                        THEN [i \in 1..Len(req.contents) |->
                                [role |-> IF req.contents[i].role = "user"
                                          THEN "user" ELSE "assistant",
                                 content |-> Str(JoinTexts(req.contents[i].parts))]]
                        ELSE <<>>,
                    !.max_tokens =
                        IF Has(req, "generationConfig")
                        THEN NumOr(req.generationConfig, "maxOutputTokens", DefaultMaxTokens)
                        ELSE @,
                    !.temperature =
                        IF Has(req, "generationConfig")
                        THEN NumOr(req.generationConfig, "temperature", DefaultTemperature)
                        ELSE @,
                    !.model = IF @ = <<>> THEN GeminiPro ELSE @]
          [] OTHER -> standard

\* Math.min giving its first argument
MinFirst(a, b) == a

Min(a, b) == IF a <= b THEN a ELSE b

\* fromStandardFormat; anthropicBeta is originalRequest.headers.get('anthropic-beta'),
\* empty without the header or without originalRequest
fromStandardFormat(standard, format, anthropicBeta, platform) ==
    CASE format \in {"openai", "openrouter"} ->
            LET openaiRequest ==
                    [model |-> standard.model,
                     messages |-> standard.messages,
                     max_tokens |-> IF platform = "groq"
                                    THEN Min(standard.max_tokens, GroqMaxTokens)
                                    ELSE standard.max_tokens,
                     temperature |-> standard.temperature,
                     stream |-> standard.stream]
                cleaned == removeCacheControlFromMessages(openaiRequest.messages)
            IN  IF platform = "openrouter"
                THEN [openaiRequest EXCEPT !.messages =
                        IF PromptCachingRequested(anthropicBeta)
                           /\ isClaudeModel(standard.model)
                        THEN addCacheControlToMessages(cleaned)
                        ELSE cleaned]
                ELSE openaiRequest
      [] format = "anthropic" ->
            LET anthropicRequest ==
                    [model |-> standard.model,
                     messages |-> standard.messages,
                     max_tokens |-> standard.max_tokens,
                     temperature |-> standard.temperature,
                     stream |-> standard.stream]
                systems == {i \in 1..Len(standard.messages) :
                                standard.messages[i].role = "system"}
            IN  IF TruthyContent(standard, "system")
                THEN With(anthropicRequest, "system", standard.system)
                ELSE IF systems # {}
                THEN LET first == CHOOSE i \in systems : \A k \in systems : i <= k
                     IN  With([anthropicRequest EXCEPT !.messages =
                                  SelectSeq(standard.messages,
                                            LAMBDA msg : msg.role # "system")],
                              "system", standard.messages[first].content)
                ELSE anthropicRequest
      [] format = "gemini" ->
            [contents |-> [i \in 1..Len(standard.messages) |->
                              [role |-> IF standard.messages[i].role = "user"
                                        THEN "user" ELSE "model",
                               parts |-> <<[text |-> standard.messages[i].content]>>]],
             generationConfig |-> [maxOutputTokens |-> standard.max_tokens,
                                   temperature |-> standard.temperature]]
      [] OTHER -> standard

convertRequest(requestBody, source, target, anthropicBeta, platform) ==
    fromStandardFormat(toStandardFormat(requestBody, source), target, anthropicBeta, platform)

applyModelMapping(body, platform) ==
    IF /\ Has(body, "model")
       /\ body.model # <<>>
       /\ body.model \in DOMAIN ModelMappings(platform)
    THEN [body EXCEPT !.model = ModelMappings(platform)[body.model]]
    ELSE body

\* buildTargetUrl: model.includes('/') throws a TypeError without a model
BuildTargetUrlThrows(body, format) == format = "gemini" /\ ~Has(body, "model")

----------------------------------------------------------------------------
(* What the clients send *)

\* A conversation holds at most MaxMessages messages.
MaxMessages == 2

TextPart == [type |-> "text", text |-> "Hi"]
CachedTextPart == [type |-> "text", text |-> "Hi", cache_control |-> Ephemeral]

\* A part that is no text part, annotated itself and holding an annotated block
ToolResultPart ==
    [type |-> "tool_result", tool_use_id |-> "t1",
     content |-> <<CachedTextPart>>, cache_control |-> Ephemeral]

UserText == [role |-> "user", content |-> Str("Hello")]
UserCached == [role |-> "user", content |-> Arr(<<CachedTextPart>>)]
UserToolResult == [role |-> "user", content |-> Arr(<<TextPart, ToolResultPart>>)]
AssistantCached == [role |-> "assistant", content |-> Arr(<<CachedTextPart>>)]
SystemText == [role |-> "system", content |-> Str("Be brief")]

MessageCatalogue == {UserText, UserCached, UserToolResult, AssistantCached, SystemText}

Conversations == UNION {[1..n -> MessageCatalogue] : n \in 0..MaxMessages}

GeminiUser == [role |-> "user", parts |-> <<[text |-> Str("Hello")]>>]
GeminiModel == [role |-> "model", parts |-> <<[text |-> Str("He")], [text |-> Str("llo")]>>]

GeminiConversations == UNION {[1..n -> {GeminiUser, GeminiModel}] : n \in 0..MaxMessages}

Models == {Gpt4, ClaudeSonnet4, ClaudeUpper, OpenRouterClaude}

\* A body with the optional fields that are given: a model of <<>>, a number
\* of -1, a stream of "absent" and a system of Str("") stand for an absent field.
ChatBody(model, messages, maxTokens, temperature, streaming, system) ==
    [k \in {"messages"}
           \cup (IF model # <<>> THEN {"model"} ELSE {})
           \cup (IF maxTokens >= 0 THEN {"max_tokens"} ELSE {})
           \cup (IF temperature >= 0 THEN {"temperature"} ELSE {})
           \cup (IF streaming # "absent" THEN {"stream"} ELSE {})
           \cup (IF system # Str("") THEN {"system"} ELSE {}) |->
        CASE k = "messages" -> messages
          [] k = "model" -> model
          [] k = "max_tokens" -> maxTokens
          [] k = "temperature" -> temperature
          [] k = "stream" -> (streaming = "true")
          [] k = "system" -> system]

GeminiBody(model, contents, config) ==
    [k \in {"contents"}
           \cup (IF model # <<>> THEN {"model"} ELSE {})
           \cup (IF config THEN {"generationConfig"} ELSE {}) |->
        CASE k = "contents" -> contents
          [] k = "model" -> model
          [] k = "generationConfig" -> [maxOutputTokens |-> 1000, temperature |-> 0]]

\* The bodies of a client format: every model with every conversation, and one
\* conversation with every setting of the optional fields.
Bodies(format) ==
    CASE format = "openai" ->
            {ChatBody(m, c, -1, -1, "absent", Str("")) :
                m \in Models, c \in Conversations}
            \cup {ChatBody(m, <<UserText>>, mt, t, st, Str("")) :
                    m \in {<<>>, Gpt4}, mt \in {-1, 0, 1000, 20000},
                    t \in {-1, 0, 10}, st \in {"absent", "true", "false"}}
      [] format = "anthropic" ->
            {ChatBody(m, c, -1, -1, "absent", sys) :
                m \in Models, c \in Conversations,
                sys \in {Str(""), Str("Be brief")}}
            \cup {ChatBody(m, <<UserText>>, mt, t, st, Str("")) :
                    m \in {<<>>, Gpt4}, mt \in {-1, 0, 1000, 20000},
                    t \in {-1, 0, 10}, st \in {"absent", "true", "false"}}
      [] format = "gemini" ->
            {GeminiBody(m, c, g) :
                m \in {<<>>, GeminiPro, ClaudeSonnet4},
                c \in GeminiConversations, g \in BOOLEAN}
            \cup {With(GeminiBody(m, <<GeminiUser>>, g), "stream", TRUE) :
                    m \in {<<>>, GeminiPro}, g \in BOOLEAN}

\* Header values: an absent header is the empty value.
PromptCaching == <<"prompt-caching", "-2024-07-31">>
OtherBeta == <<"tools-2024-04-04">>

NoCredentials ==
    [authorization |-> <<>>, apiKey |-> <<>>, googApiKey |-> <<>>, urlKey |-> <<>>]

BearerToken == [NoCredentials EXCEPT !.authorization = <<"Bearer ", "sk-1">>]

CredentialsCatalogue ==
    {NoCredentials,
     BearerToken,
     [NoCredentials EXCEPT !.authorization = <<"sk-1">>],
     [NoCredentials EXCEPT !.authorization = <<"Bearer ">>],
     [NoCredentials EXCEPT !.apiKey = <<"sk-1">>],
     [NoCredentials EXCEPT !.googApiKey = <<"sk-1">>],
     [NoCredentials EXCEPT !.urlKey = <<"sk-1">>]}

\* POST /{platform}/{client_format} with a bearer token and a JSON body
WellFormedRequests ==
    UNION {{[method |-> "POST", path |-> <<p, f>>, credentials |-> BearerToken,
             anthropicBeta |-> b, json |-> TRUE, body |-> body] :
                p \in Platforms, b \in {<<>>, PromptCaching, OtherBeta},
                body \in Bodies(f)} : f \in Formats}

BaseRequest ==
    [method |-> "POST", path |-> <<"openai", "anthropic">>, credentials |-> BearerToken,
     anthropicBeta |-> <<>>, json |-> TRUE,
     body |-> ChatBody(Gpt4, <<UserText>>, -1, -1, "absent", Str(""))]

\* The base request with another method, path, body text or credentials
OtherRequests ==
    {[BaseRequest EXCEPT !.method = m, !.path = <<>>] : m \in {"OPTIONS", "GET", "PUT"}}
    \cup {[BaseRequest EXCEPT !.method = "GET"]}
    \cup {[BaseRequest EXCEPT !.path = q] :
            q \in {<<>>, <<"openai">>, <<"azure", "openai">>, <<"openai", "cohere">>,
                   <<"OpenAI", "Anthropic">>,
                   <<"openai", "anthropic", "v1", "messages">>,
                   <<"openai", "anthropic", "v1", "chat", "completions">>,
                   <<"openai", "anthropic", "v1beta", "models">>,
                   <<"openai", "anthropic", "v2", "messages">>,
                   <<"azure", "cohere", "v2", "messages">>}}
    \cup {[BaseRequest EXCEPT !.json = FALSE]}
    \cup {[BaseRequest EXCEPT !.json = FALSE, !.credentials = NoCredentials]}
    \cup {[BaseRequest EXCEPT !.credentials = cr] : cr \in CredentialsCatalogue}

Requests == WellFormedRequests \cup OtherRequests

----------------------------------------------------------------------------
(* handleRequest *)

\* url.pathname.split('/').filter(Boolean), then toLowerCase on the two tags
PlatformOf(req) == ToLowerCase(req.path[1])
ClientFormatOf(req) == ToLowerCase(req.path[2])

\* validApiPaths.some(path => apiPath.startsWith(path)), segment by segment
IsValidApiPath(segments) ==
    \E valid \in {<<"v1", "messages">>, <<"v1", "chat", "completions">>,
                  <<"v1beta", "models">>} :
        /\ Len(segments) >= Len(valid)
        /\ SubSeq(segments, 1, Len(valid)) = valid

\* extractAuthToken without the removal of the Bearer prefix
ExtractKeepsBearer(credentials) ==
    IF credentials.authorization # <<>> THEN credentials.authorization
    ELSE IF credentials.apiKey # <<>> THEN credentials.apiKey
    ELSE IF credentials.googApiKey # <<>> THEN credentials.googApiKey
    ELSE credentials.urlKey

\* extractAuthToken: the empty value for null and for the empty string
extractAuthToken(credentials) ==
    IF credentials.authorization # <<>>
    THEN IF Head(credentials.authorization) = "Bearer "
         THEN Tail(credentials.authorization)
         ELSE credentials.authorization
    ELSE IF credentials.apiKey # <<>> THEN credentials.apiKey
    ELSE IF credentials.googApiKey # <<>> THEN credentials.googApiKey
    ELSE credentials.urlKey

\* The response handleRequest returns before it looks at the body's fields:
\* status 0 when it returns none there.
EarlyResponse(req) ==
    IF req.method = "OPTIONS" THEN [status |-> 200, kind |-> "preflight"]
    ELSE IF req.method # "POST"
    THEN IF req.method = "GET" /\ req.path = <<>>
         THEN [status |-> 200, kind |-> "info"]
         ELSE [status |-> 405, kind |-> "Method Not Allowed"]
    ELSE IF Len(req.path) < 2
    THEN [status |-> 400, kind |-> "Invalid path format"]
    ELSE IF Len(req.path) > 2 /\ ~IsValidApiPath(SubSeq(req.path, 3, Len(req.path)))
    THEN [status |-> 404, kind |-> "Invalid API path"]
    ELSE IF PlatformOf(req) \notin Platforms
    THEN [status |-> 400, kind |-> "Unsupported platform"]
    ELSE IF ClientFormatOf(req) \notin Formats
    THEN [status |-> 400, kind |-> "Unsupported client format"]
    ELSE IF ~req.json
    THEN [status |-> 500, kind |-> "Internal Error"]
    ELSE IF extractAuthToken(req.credentials) = <<>>
    THEN [status |-> 401, kind |-> "Missing authentication token"]
    ELSE [status |-> 0, kind |-> ""]

\* finalRequestBody of the same-format path
FinalRequestBody(req) ==
    LET platform == PlatformOf(req)
        requestBody == req.body
    IN  IF platform = "groq"
        THEN IF Has(requestBody, "max_tokens") /\ requestBody.max_tokens > GroqMaxTokens
             THEN [requestBody EXCEPT !.max_tokens = GroqMaxTokens]
             ELSE requestBody
        ELSE IF platform = "openrouter"
        THEN LET cleaned == removeCacheControlFromMessages(requestBody.messages)
             IN  [requestBody EXCEPT !.messages =
                    IF PromptCachingRequested(req.anthropicBeta)
                       /\ isClaudeModel(ModelOr(requestBody))
                    THEN addCacheControlToMessages(cleaned)
                    ELSE cleaned]
        ELSE requestBody

\* mappedRequest of the conversion path
MappedRequest(req) ==
    LET platform == PlatformOf(req) IN
    applyModelMapping(
        convertRequest(req.body, ClientFormatOf(req), PlatformFormat(platform),
                       req.anthropicBeta, platform),
        platform)

ReqIdle ==
    /\ request = [method |-> ""] /\ hpc = "idle"
    /\ sent = <<>> /\ status = 0 /\ via = ""

\* An early return, or the exception of request.json() in the catch block
RejectRequest ==
    /\ hpc = "received"
    /\ EarlyResponse(request).status # 0
    /\ status' = EarlyResponse(request).status
    /\ via' = EarlyResponse(request).kind
    /\ hpc' = "responded"
    /\ UNCHANGED <<request, sent, streamVars, tripVars, callVars>>

\* The same-format path up to fetch; buildTargetUrl may throw into the catch block
ForwardRequest ==
    /\ hpc = "received"
    /\ EarlyResponse(request).status = 0
    /\ PlatformFormat(PlatformOf(request)) = ClientFormatOf(request)
    /\ LET finalRequestBody == FinalRequestBody(request) IN
       IF BuildTargetUrlThrows(finalRequestBody, PlatformFormat(PlatformOf(request)))
       THEN /\ status' = 500 /\ via' = "Internal Error" /\ hpc' = "responded"
            /\ UNCHANGED sent
       ELSE /\ sent' = Append(sent, finalRequestBody)
            /\ via' = "forward" /\ hpc' = "fetch"
            /\ UNCHANGED status
    /\ UNCHANGED <<request, streamVars, tripVars, callVars>>

\* The conversion path up to fetch
ConvertAndSend ==
    /\ hpc = "received"
    /\ EarlyResponse(request).status = 0
    /\ PlatformFormat(PlatformOf(request)) # ClientFormatOf(request)
    /\ LET mappedRequest == MappedRequest(request) IN
       IF BuildTargetUrlThrows(mappedRequest, PlatformFormat(PlatformOf(request)))
       THEN /\ status' = 500 /\ via' = "Internal Error" /\ hpc' = "responded"
            /\ UNCHANGED sent
       ELSE /\ sent' = Append(sent, mappedRequest)
            /\ via' = "convert" /\ hpc' = "fetch"
            /\ UNCHANGED status
    /\ UNCHANGED <<request, streamVars, tripVars, callVars>>

\* fetch rejects: the catch block
FetchRejects ==
    /\ hpc = "fetch"
    /\ status' = 500 /\ via' = "Internal Error" /\ hpc' = "responded"
    /\ UNCHANGED <<request, sent, streamVars, tripVars, callVars>>

\* !response.ok: the platform's status with its text
UpstreamError(code) ==
    /\ hpc = "fetch"
    /\ status' = code /\ via' = "Platform API Error" /\ hpc' = "responded"
    /\ UNCHANGED <<request, sent, streamVars, tripVars, callVars>>

\* response.ok: the stream handed on or translated, or the document; a body
\* that is no JSON, or one the adapter throws on, ends in the catch block
UpstreamReplies(readable) ==
    /\ hpc = "fetch"
    /\ LET streaming == Has(Last(sent), "stream") /\ Last(sent).stream = TRUE IN
       IF streaming
       THEN /\ status' = 200
            /\ via' = IF via = "forward" THEN "stream" ELSE "handleStreamResponse"
       ELSE IF readable
       THEN /\ status' = 200
            /\ via' = IF via = "forward" THEN "json" ELSE "convertResponse"
       ELSE /\ status' = 500 /\ via' = "Internal Error"
    /\ hpc' = "responded"
    /\ UNCHANGED <<request, sent, streamVars, tripVars, callVars>>

ReqInit ==
    /\ request \in Requests /\ hpc = "received"
    /\ sent = <<>> /\ status = 0 /\ via = ""
    /\ StreamIdle /\ CallIdle
    /\ ir = <<>> /\ protocol = "" /\ wire = <<>> /\ back = <<>> /\ rpc = "idle"


ReqNext ==
    \/ RejectRequest
    \/ ForwardRequest
    \/ ConvertAndSend
    \/ FetchRejects
    \/ \E code \in {400, 429, 500} : UpstreamError(code)
    \/ \E readable \in BOOLEAN : UpstreamReplies(readable)

ReqSpec == ReqInit /\ [][ReqNext]_vars

----------------------------------------------------------------------------
(* A request of the standard format through an adapter and back *)

\* The tags the two switch statements have a case for
Protocols == {"openai", "openrouter", "anthropic", "gemini"}

\* Standard requests: max_tokens of 1 and more, temperatures from 0 to 2
StandardRequests ==
    {[model |-> m, messages |-> c, max_tokens |-> mt, temperature |-> t, stream |-> st] :
        m \in {Gpt4, GeminiPro}, c \in Conversations, mt \in {1, 1000, 20000},
        t \in {0, 7, 20}, st \in BOOLEAN}

TripIdle ==
    /\ ir = <<>> /\ protocol = "" /\ wire = <<>> /\ back = <<>> /\ rpc = "idle"

TripInit ==
    /\ ir \in StandardRequests /\ protocol \in Protocols
    /\ wire = <<>> /\ back = <<>> /\ rpc = "standard"
    /\ StreamIdle /\ ReqIdle /\ CallIdle

\* fromStandardFormat(r, P), without a request and a platform
ToWire ==
    /\ rpc = "standard"
    /\ wire' = fromStandardFormat(ir, protocol, <<>>, Null)
    /\ rpc' = "wire"
    /\ UNCHANGED <<ir, protocol, back, streamVars, reqVars, callVars>>

\* toStandardFormat on what fromStandardFormat returned
BackToStandard ==
    /\ rpc = "wire"
    /\ back' = toStandardFormat(wire, protocol)
    /\ rpc' = "back"
    /\ UNCHANGED <<ir, protocol, wire, streamVars, reqVars, callVars>>

RoundTripNext == ToWire \/ BackToStandard

RoundTripSpec == TripInit /\ [][RoundTripNext]_vars

----------------------------------------------------------------------------
(* Responses *)

\* Date.now() in the Gemini id, fixed for the run like Now
NowMillis == "<now-ms>"

ZeroUsage == [prompt_tokens |-> 0, completion_tokens |-> 0, total_tokens |-> 0]

\* response.content?.[0]?.text || ''
FirstText(response) ==
    IF Has(response, "content") /\ Len(response.content) > 0
    THEN OrElse(response.content[1], "text", "")
    ELSE ""

\* response.usage?.input_tokens || 0, and the like
UsageOr(response, field) ==
    IF Has(response, "usage") THEN NumOr(response.usage, field, 0) ELSE 0

\* The anthropic case with total_tokens left at its initial 0
AnthropicUsageNoTotal(response) ==
    [prompt_tokens |-> UsageOr(response, "input_tokens"),
     completion_tokens |-> UsageOr(response, "output_tokens"),
     total_tokens |-> 0]

\* responseToStandardFormat, case 'anthropic': the usage
AnthropicUsage(response) ==
    [prompt_tokens |-> UsageOr(response, "input_tokens"),
     completion_tokens |-> UsageOr(response, "output_tokens"),
     total_tokens |-> UsageOr(response, "input_tokens")
                      + UsageOr(response, "output_tokens")]

\* The anthropic case taking the text of the last content part
AnthropicMessageLastPart(response) ==
    [role |-> "assistant",
     content |-> IF Has(response, "content") /\ Len(response.content) > 0
                 THEN OrElse(Last(response.content), "text", "")
                 ELSE ""]

\* responseToStandardFormat, case 'anthropic': the message of the choice
AnthropicMessage(response) ==
    [role |-> "assistant", content |-> FirstText(response)]

responseToStandardFormat(response, format) ==
    LET standard == [id |-> "", object |-> "chat.completion", created |-> Now,
                     model |-> "", choices |-> <<>>, usage |-> ZeroUsage]
    IN  CASE format \in {"openai", "openrouter"} -> response
          [] format = "anthropic" ->
                [standard EXCEPT
                    !.id = OrElse(response, "id", ""),
                    !.model = OrElse(response, "model", ""),
                    !.choices = <<[index |-> 0,
                                   message |-> AnthropicMessage(response),
                                   finish_reason |-> OrElse(response, "stop_reason", "stop")]>>,
                    !.usage = AnthropicUsage(response)]
          [] format = "gemini" ->
                [standard EXCEPT
                    !.id = "gemini-" \o NowMillis,
                    !.model = "gemini",
                    !.choices =
                        IF Has(response, "candidates") /\ Len(response.candidates) > 0
                        THEN LET candidate == response.candidates[1] IN
                             <<[index |-> 0,
                                message |-> [role |-> "assistant",
                                             content |-> CandidateText(candidate)],
                                finish_reason |->
                                    IF Truthy(candidate, "finishReason")
                                    THEN ToLowerCase(candidate.finishReason)
                                    ELSE "stop"]>>
                        ELSE <<>>]
          [] OTHER -> standard

\* standard.choices[0] and standard.usage.prompt_tokens throw a TypeError on
\* a standard response without choices or without usage.
ResponseFromStandardThrows(standard, format) ==
    \/ format \in {"anthropic", "gemini"} /\ ~Has(standard, "choices")
    \/ format = "anthropic" /\ ~Has(standard, "usage")

\* o.f, undefined when o has no f
Get(o, f) == IF Has(o, f) THEN o[f] ELSE Undefined

\* choice?.message?.content || ''
ChoiceText(standard) ==
    IF Len(standard.choices) > 0 /\ Has(standard.choices[1], "message")
    THEN OrElse(standard.choices[1].message, "content", "")
    ELSE ""

\* choice?.finish_reason || d
ChoiceFinish(standard, d) ==
    IF Len(standard.choices) > 0 THEN OrElse(standard.choices[1], "finish_reason", d)
    ELSE d

responseFromStandardFormat(standard, format) ==
    CASE format \in {"openai", "openrouter"} -> standard
      [] format = "anthropic" ->
            [id |-> Get(standard, "id"),
             type |-> "message",
             role |-> "assistant",
             content |-> <<[type |-> "text", text |-> ChoiceText(standard)]>>,
             model |-> Get(standard, "model"),
             stop_reason |-> ChoiceFinish(standard, "end_turn"),
             usage |-> [input_tokens |-> Get(standard.usage, "prompt_tokens"),
                        output_tokens |-> Get(standard.usage, "completion_tokens")]]
      [] format = "gemini" ->
            [candidates |->
                <<[content |-> [parts |-> <<[text |-> ChoiceText(standard)]>>,
                                role |-> "model"],
                   finishReason |-> IF ChoiceFinish(standard, "") = "" THEN "STOP"
                                    ELSE ToUpperCase(ChoiceFinish(standard, "")),
                   index |-> 0]>>]
      [] OTHER -> standard

ConvertResponseThrows(response, source, target) ==
    ResponseFromStandardThrows(responseToStandardFormat(response, source), target)

convertResponse(response, source, target) ==
    responseFromStandardFormat(responseToStandardFormat(response, source), target)

----------------------------------------------------------------------------
(* The adapter functions, called on their own *)

\* A format tag no switch statement has a case for
UnknownTag == "cohere"

Tags == Protocols \cup {UnknownTag}

\* The bodies a caller passes with a source tag
BodiesOf(tag) == IF tag \in Formats THEN Bodies(tag) ELSE Bodies("openai")

\* convertRequest(requestBody, sourceFormat, targetFormat), without the
\* original request and the platform
ConvertRequestCalls ==
    UNION {{[fn |-> "convertRequest", requestBody |-> b,
             sourceFormat |-> source, targetFormat |-> target] :
                b \in BodiesOf(source), target \in Tags} : source \in Tags}

\* convertRequest returns: what toStandardFormat gave it, and its value
CallConvertRequest ==
    /\ cpc = "called" /\ call.fn = "convertRequest"
    /\ ret' = [threw |-> FALSE,
               standard |-> toStandardFormat(call.requestBody, call.sourceFormat),
               value |-> convertRequest(call.requestBody, call.sourceFormat,
                                        call.targetFormat, <<>>, Null)]
    /\ cpc' = "returned"
    /\ UNCHANGED <<call, streamVars, reqVars, tripVars>>

\* A record of the fields whose value is given: "<absent>" leaves a field out.
Absent == "<absent>"

NoContent == <<[absent |-> TRUE]>>

\* An Anthropic response; content, stop_reason and usage may be absent, and
\* id and model are absent together.
AnthropicResponse(named, content, stop, usage) ==
    [k \in {"type", "role"}
           \cup (IF named THEN {"id", "model"} ELSE {})
           \cup (IF content # NoContent THEN {"content"} ELSE {})
           \cup (IF stop # Absent THEN {"stop_reason"} ELSE {})
           \cup (IF usage # <<>> THEN {"usage"} ELSE {}) |->
        CASE k = "type" -> "message"
          [] k = "role" -> "assistant"
          [] k = "id" -> "msg_1"
          [] k = "model" -> "claude-3-opus"
          [] k = "content" -> content
          [] k = "stop_reason" -> stop
          [] k = "usage" -> usage]

AnthropicResponses ==
    {AnthropicResponse(named, content, stop, usage) :
        named \in BOOLEAN,
        content \in {NoContent, <<>>,
                     <<[type |-> "text", text |-> "Hi"]>>,
                     <<[type |-> "text", text |-> "Hi"], [type |-> "text", text |-> " there"]>>,
                     <<[type |-> "tool_use", id |-> "t1", name |-> "get"],
                       [type |-> "text", text |-> "Hi"]>>},
        stop \in {Absent, Null, "end_turn", "max_tokens"},
        usage \in {<<>>, [input_tokens |-> 10, output_tokens |-> 5],
                   [input_tokens |-> 10], [output_tokens |-> 5],
                   [input_tokens |-> 0, output_tokens |-> 0]}}

OpenAIResponse(text, finish, usage) ==
    [k \in {"id", "object", "created", "model", "choices"}
           \cup (IF usage # <<>> THEN {"usage"} ELSE {}) |->
        CASE k = "id" -> "chatcmpl-1"
          [] k = "object" -> "chat.completion"
          [] k = "created" -> "1700000000"
          [] k = "model" -> "gpt-4"
          [] k = "choices" -> <<[index |-> 0,
                                 message |-> [role |-> "assistant", content |-> text],
                                 finish_reason |-> finish]>>
          [] k = "usage" -> usage]

\* The second usage is one an upstream reports with tokens of its own added.
OpenAIResponses ==
    {OpenAIResponse(text, finish, usage) :
        text \in {"Hi", ""}, finish \in {"stop", "length"},
        usage \in {<<>>,
                   [prompt_tokens |-> 10, completion_tokens |-> 5, total_tokens |-> 15],
                   [prompt_tokens |-> 10, completion_tokens |-> 5, total_tokens |-> 20]}}

GeminiCandidate(text, finish) ==
    [k \in {"index"}
           \cup (IF text # Absent THEN {"content"} ELSE {})
           \cup (IF finish # Absent THEN {"finishReason"} ELSE {}) |->
        CASE k = "index" -> 0
          [] k = "content" -> [parts |-> <<[text |-> text]>>, role |-> "model"]
          [] k = "finishReason" -> finish]

GeminiResponses ==
    {[usageMetadata |-> [promptTokenCount |-> 10, candidatesTokenCount |-> 5,
                         totalTokenCount |-> 15]],
     [candidates |-> <<>>]}
    \cup {[candidates |-> <<GeminiCandidate(text, finish)>>] :
            text \in {Absent, "Hi"}, finish \in {Absent, "STOP", "MAX_TOKENS"}}
    \cup {[candidates |-> <<GeminiCandidate("Hi", "STOP")>>,
           usageMetadata |-> [promptTokenCount |-> 10, candidatesTokenCount |-> 5,
                              totalTokenCount |-> 15]]}

\* The responses a caller passes with a source tag
ResponsesOf(tag) ==
    CASE tag = "anthropic" -> AnthropicResponses
      [] tag = "gemini" -> GeminiResponses
      [] OTHER -> OpenAIResponses

ConvertResponseCalls ==
    UNION {{[fn |-> "convertResponse", response |-> d,
             sourceFormat |-> source, targetFormat |-> target] :
                d \in ResponsesOf(source), target \in Tags} : source \in Tags}

\* convertResponse returns or throws
CallConvertResponse ==
    /\ cpc = "called" /\ call.fn = "convertResponse"
    /\ ret' = IF ConvertResponseThrows(call.response, call.sourceFormat, call.targetFormat)
              THEN [threw |-> TRUE]
              ELSE [threw |-> FALSE,
                    standard |-> responseToStandardFormat(call.response, call.sourceFormat),
                    value |-> convertResponse(call.response, call.sourceFormat,
                                              call.targetFormat)]
    /\ cpc' = "returned"
    /\ UNCHANGED <<call, streamVars, reqVars, tripVars>>

\* A message with an array content and no cache_control
UserPlain == [role |-> "user", content |-> Arr(<<TextPart>>)]

RemoveCalls ==
    {[fn |-> "removeCacheControlFromMessages", messages |-> c] :
        c \in Conversations \cup {<<UserPlain>>, <<UserPlain, UserText>>}}

\* removeCacheControlFromMessages, and once more on what it returned
CallRemoveCacheControl ==
    /\ cpc = "called" /\ call.fn = "removeCacheControlFromMessages"
    /\ ret' = [threw |-> FALSE,
               value |-> removeCacheControlFromMessages(call.messages),
               again |-> removeCacheControlFromMessages(
                            removeCacheControlFromMessages(call.messages))]
    /\ cpc' = "returned"
    /\ UNCHANGED <<call, streamVars, reqVars, tripVars>>

Calls == ConvertRequestCalls \cup ConvertResponseCalls \cup RemoveCalls

CallInit ==
    /\ call \in Calls /\ ret = <<>> /\ cpc = "called"
    /\ StreamIdle /\ ReqIdle /\ TripIdle

CallNext ==
    \/ CallConvertRequest
    \/ CallConvertResponse
    \/ CallRemoveCacheControl

CallSpec == CallInit /\ [][CallNext]_vars

----------------------------------------------------------------------------
(* handleStreamResponse on its own *)

Init == StreamInit /\ ReqIdle /\ TripIdle /\ CallIdle

Next ==
    \/ \E n \in 1..Len(stream) : ReadChunk(n)
    \/ ReadDone
    \/ ReadFails
    \/ ProcessLine
    \/ LoopEnd
    \/ WriteResolves
    \/ WriteRejects
    \/ CloseWriter

Spec == Init /\ [][Next]_vars

----------------------------------------------------------------------------
(* The reframer's properties *)

NoFailure == ~readFailed /\ writerState # "errored"

\* The source read as one contiguous block: its text, and the lines handed to
\* processStreamLine (the complete ones, then a non-empty residual).
OneBlockText == DecodeFrom(FALSE, stream, <<>>).text
OneBlockLines ==
    LET parts == Split(OneBlockText)
    IN  IF Last(parts) # <<>> THEN parts ELSE Front(parts)

\* The same lines as the bytes the source sent.
RawLines ==
    LET parts == Split(stream)
    IN  IF Last(parts) # <<>> THEN parts ELSE Front(parts)

\* The complete lines among the bytes delivered so far.
DeliveredLines == Front(Split(DecodeFrom(FALSE, SubSeq(stream, 1, pos), <<>>).text))

LineOutput(l) == Encode(FirstWrite(l, sourceFormat, targetFormat).text)

Payload(l) == SubSeq(l, Len(DataPrefix) + 1, Len(l))

\* A data line whose payload the code hands to JSON.parse
IsParsed(l) ==
    /\ Trim(l) # <<>>
    /\ StartsWith(l, DataPrefix)
    /\ Payload(l) # DoneSentinel
    /\ Trim(Payload(l)) # <<>>

IsMalformed(l) == IsParsed(l) /\ ~IsJson(Payload(l))

IsEvent(l) ==
    /\ IsParsed(l)
    /\ IsJson(Payload(l))
    /\ ~ConvertThrows(JsonParse(Payload(l)), sourceFormat, targetFormat)

ErrorEvents == {Encode(LineErrorEvent), Encode(StreamErrorEvent)}

\* C1: whatever the cuts between the reads, a run that ends without a failure
\* has written what reading the source as one contiguous block writes, write
\* for write.
C1_ChunkingIndependent ==
    (pc = "done" /\ NoFailure) =>
        [k \in 1..Len(writes) |-> writes[k].bytes]
            = [k \in 1..Len(OneBlockLines) |-> LineOutput(OneBlockLines[k])]

\* C1 witness: a finished run whose reads cut a line, with a translated event.
C1_Witness ==
    /\ pc = "done" /\ NoFailure /\ cut
    /\ Len(writes) >= 2
    /\ \E k \in 1..Len(writes) : writes[k].site = "w906"

\* C2: the k-th write is the output of the k-th line of the source, and there
\* are as many writes as lines handed to processStreamLine: lines are written
\* in source order, one write each.
C2_SourceOrder ==
    NoFailure =>
        /\ Len(writes) + Len(lines) = Len(DeliveredLines) + (IF tail THEN 1 ELSE 0)
        /\ \A k \in 1..Len(writes) : writes[k].bytes = LineOutput(OneBlockLines[k])

\* C2 witness: one read brought two different lines; the first is being
\* written while the second waits.
C2_Witness ==
    /\ NoFailure /\ pc = "write"
    /\ lines # <<>> /\ lines[1] # line
    /\ Len(writes) >= 1

\* C3: a data line that is not JSON is written as the source sent it, with the
\* blank line after it; the events around it are written translated; no error
\* event is written; the output is closed only once the source has ended and
\* every line has been written.
C3_Lenient ==
    NoFailure =>
        /\ \A k \in 1..Len(writes) :
              LET l == OneBlockLines[k] IN
              /\ IsMalformed(l) => writes[k].bytes = RawLines[k] \o <<NL, NL>>
              /\ IsEvent(l) =>
                    writes[k].bytes =
                        DataPrefix
                        \o <<J(convertStreamChunk(JsonParse(Payload(l)),
                                                  sourceFormat, targetFormat))>>
                        \o <<NL, NL>>
              /\ writes[k].bytes \notin ErrorEvents
        /\ writerState = "closed" =>
              pos = Len(stream) /\ Len(writes) = Len(OneBlockLines)

\* C3 witness: the stream with a malformed line between two events, read in
\* pieces to its end.
C3_Witness ==
    /\ pc = "done" /\ NoFailure /\ cut
    /\ stream = JoinLines(LenientLines(sourceFormat), TRUE)
    /\ Len(writes) = Len(LenientLines(sourceFormat))
    /\ writerState = "closed"

\* C4: once a read has rejected, the last write is the one error event of
\* processStreamData, every write before it is the output of a source line and
\* was delivered, and the run ends with one close of the writer.
C4_ReadFailure ==
    readFailed =>
        /\ pc \in {"write", "finally", "done"}
        /\ writes # <<>>
        /\ Last(writes).bytes = Encode(StreamErrorEvent)
        /\ \A k \in 1..(Len(writes) - 1) :
              /\ writes[k].status = "ok"
              /\ writes[k].bytes = LineOutput(OneBlockLines[k])
              /\ writes[k].bytes \notin ErrorEvents
        /\ Len(writes) = Len(DeliveredLines) + 1
        /\ pc = "done" =>
              /\ closeCalls = 1
              /\ Last(writes).status = "ok" => writerState = "closed"

\* C4 witness: the read failed inside a line, after two lines had been
\* written; the error event went out and the writer is closed.
C4_Witness ==
    /\ pc = "done" /\ readFailed
    /\ Len(writes) >= 3
    /\ buffer # <<>>
    /\ Last(writes).status = "ok"
    /\ writerState = "closed"

\* C5: after a failed write or a failed read the run ends with the source
\* reader cancelled or released and the writer closed.
C5_ReleasesBothStreams ==
    (pc = "done" /\ (readFailed \/ writerState = "errored")) =>
        /\ readerState \in {"cancelled", "released"}
        /\ closeCalls = 1

\* C6: no read is pending while a write is; between reads nothing is held
\* but the buffer, and the buffer holds no newline.
C6_Backpressure ==
    /\ \A i \in 1..Len(buffer) : buffer[i] # NL
    /\ Cardinality({k \in 1..Len(writes) : writes[k].status = "pending"}) <= 1
    /\ pc = "read" =>
          /\ \A k \in 1..Len(writes) : writes[k].status # "pending"
          /\ lines = <<>>

\* C6 witness: a read is pending after two writes have completed, with an
\* incomplete line in the buffer.
C6_Witness ==
    /\ pc = "read" /\ NoFailure
    /\ pos < Len(stream)
    /\ Len(writes) >= 2
    /\ buffer # <<>>

\* The choices C7 states for an Anthropic event.
C7_Choices(d) ==
    IF d.type = "content_block_delta"
    THEN <<[index |-> 0, delta |-> [content |-> d.delta.text], finish_reason |-> Null]>>
    ELSE IF d.type = "message_stop"
    THEN <<[index |-> 0, delta |-> <<>>, finish_reason |-> "stop"]>>
    ELSE <<>>

\* C7: from Anthropic to OpenAI, the write for a source event is one data
\* event whose choices are those of C7_Choices, and the write for any other
\* line is no data event with a document.
C7_AnthropicToOpenAI ==
    (sourceFormat = "anthropic" /\ targetFormat = "openai" /\ NoFailure) =>
        \A k \in 1..Len(writes) :
            LET l == OneBlockLines[k]
                w == writes[k].bytes
            IN  IF IsParsed(l) /\ IsJson(Payload(l))
                THEN /\ Len(w) = Len(DataPrefix) + 3
                     /\ StartsWith(w, DataPrefix)
                     /\ Has(w[Len(DataPrefix) + 1], "json")
                     /\ w[Len(DataPrefix) + 1].json.choices
                            = C7_Choices(JsonParse(Payload(l)))
                     /\ SubSeq(w, Len(w) - 1, Len(w)) = <<NL, NL>>
                ELSE \A i \in 1..Len(w) : ~Has(w[i], "json")

\* C7 witness: the reply "He", "llo", message_stop has been translated.
C7_Witness ==
    /\ pc = "done" /\ NoFailure
    /\ sourceFormat = "anthropic" /\ targetFormat = "openai"
    /\ stream = JoinLines(AnthropicReplyLines, TRUE)
    /\ Len(writes) = Len(AnthropicReplyLines)
    /\ writes[Len(writes)].bytes[Len(DataPrefix) + 1].json.choices[1].finish_reason = "stop"

----------------------------------------------------------------------------
(* The properties of the requests sent upstream *)

\* Some content part of some message of the body carries cache_control.
CarriesCacheControl(body) ==
    /\ Has(body, "messages")
    /\ \E i \in 1..Len(body.messages) :
          /\ IsArray(body.messages[i].content)
          /\ \E j \in 1..Len(body.messages[i].content.arr) :
                Has(body.messages[i].content.arr[j], "cache_control")

\* The identifiers of this model that contain claude or anthropic, in any case
ClaudeFamily == {ClaudeSonnet4, ClaudeOpus4, ClaudeUpper, OpenRouterClaude}

ToOpenRouter == hpc # "idle" /\ Len(request.path) >= 2 /\ PlatformOf(request) = "openrouter"

\* C8: a body sent to OpenRouter has a content part with cache_control only
\* if the request has an anthropic-beta header containing prompt-caching and
\* asks for a model of the Claude family, on the conversion path and on the
\* same-format path alike.
C8_CacheControlOnlyIfOptedIn ==
    ToOpenRouter =>
        \A i \in 1..Len(sent) :
            CarriesCacheControl(sent[i]) =>
                /\ request.anthropicBeta = PromptCaching
                /\ ModelOr(request.body) \in ClaudeFamily

\* C8 witness: an Anthropic client asked OpenRouter for gpt-4 with the
\* prompt-caching header and annotated parts; the body went out with none.
C8_Witness ==
    /\ ToOpenRouter /\ via = "convert"
    /\ ClientFormatOf(request) = "anthropic"
    /\ request.anthropicBeta = PromptCaching
    /\ ModelOr(request.body) = Gpt4
    /\ CarriesCacheControl(request.body)
    /\ Len(sent) = 1 /\ ~CarriesCacheControl(sent[1])

\* C9: a body sent to OpenRouter, after applyModelMapping, has a content part
\* with cache_control only if the model of that body is of the Claude family.
C9_SentModelIsClaude ==
    ToOpenRouter =>
        \A i \in 1..Len(sent) :
            CarriesCacheControl(sent[i]) => ModelOr(sent[i]) \in ClaudeFamily

----------------------------------------------------------------------------
(* The round trip *)

\* The standard requests the wire shape of a protocol can hold: any for the
\* OpenAI shape; for Anthropic those without a system message among the
\* messages; for Gemini those of the default model, not streamed, whose
\* messages are strings of a user or an assistant.
Representable(r, P) ==
    CASE P \in {"openai", "openrouter"} -> TRUE
      [] P = "anthropic" ->
            \A i \in 1..Len(r.messages) : r.messages[i].role # "system"
      [] P = "gemini" ->
            /\ r.model = GeminiPro
            /\ ~r.stream
            /\ \A i \in 1..Len(r.messages) :
                  /\ r.messages[i].role \in {"user", "assistant"}
                  /\ IsString(r.messages[i].content)

\* C10: a standard request r that the wire shape of P can hold comes back
\* from toStandardFormat(fromStandardFormat(r, P), P) as r.
C10_RoundTrip ==
    (rpc = "back" /\ Representable(ir, protocol)) => back = ir

----------------------------------------------------------------------------
(* The properties of the adapter functions *)

\* The value the caller supplied for a field of the standard request: in the
\* body, or for Gemini in generationConfig; <<>> when it supplied none.
Supplied(body, format, field) ==
    IF format = "gemini" /\ field # "stream"
    THEN LET name == IF field = "max_tokens" THEN "maxOutputTokens" ELSE field IN
         IF Has(body, "generationConfig") /\ Has(body.generationConfig, name)
         THEN <<body.generationConfig[name]>>
         ELSE <<>>
    ELSE IF Has(body, field) THEN <<body[field]>> ELSE <<>>

\* The supplied value, or the default for a field that is absent
SuppliedOr(body, format, field, default) ==
    IF Supplied(body, format, field) = <<>> THEN default
    ELSE Supplied(body, format, field)[1]

\* C11: toStandardFormat gives max_tokens, temperature and stream the value
\* the caller supplied (a max_tokens of 1 or more, any temperature, either
\* stream) and 2048, 0.7 and false for a field that is absent; a request
\* translated to the OpenAI or the Anthropic shape carries the same values.
C11_KeepsSupplied ==
    (/\ cpc = "returned" /\ call.fn = "convertRequest"
     /\ call.sourceFormat \in Protocols
     /\ Supplied(call.requestBody, call.sourceFormat, "max_tokens") # <<0>>) =>
        LET body == call.requestBody
            source == call.sourceFormat
            expected == [max_tokens |-> SuppliedOr(body, source, "max_tokens", DefaultMaxTokens),
                         temperature |-> SuppliedOr(body, source, "temperature", DefaultTemperature),
                         stream |-> SuppliedOr(body, source, "stream", FALSE)]
        IN  /\ \A f \in DOMAIN expected : ret.standard[f] = expected[f]
            /\ call.targetFormat \in {"openai", "openrouter", "anthropic"} =>
                  \A f \in DOMAIN expected : ret.value[f] = expected[f]

\* A call of convertResponse has returned a value.
ResponseConverted == cpc = "returned" /\ call.fn = "convertResponse" /\ ~ret.threw

\* The tokens an Anthropic response reports in a field of usage, 0 for a
\* missing one
ReportedTokens(response, field) ==
    IF Has(response, "usage") /\ Has(response.usage, field)
    THEN response.usage[field]
    ELSE 0

\* A usage with all three fields whose total is not the sum of the other two
BreaksSum(usage) ==
    /\ {"prompt_tokens", "completion_tokens", "total_tokens"} \subseteq DOMAIN usage
    /\ usage.total_tokens # usage.prompt_tokens + usage.completion_tokens

\* C12: the standard response made from an Anthropic response has
\* prompt_tokens = input_tokens, completion_tokens = output_tokens, a missing
\* one counted as 0, and total_tokens their sum; and a usage that breaks the
\* sum is in a result only where the OpenAI-shaped source had that very usage,
\* which the adapters hand on untouched.
C12_UsageSum ==
    ResponseConverted =>
        /\ call.sourceFormat = "anthropic" =>
              /\ ret.standard.usage.prompt_tokens
                    = ReportedTokens(call.response, "input_tokens")
              /\ ret.standard.usage.completion_tokens
                    = ReportedTokens(call.response, "output_tokens")
              /\ ret.standard.usage.total_tokens
                    = ReportedTokens(call.response, "input_tokens")
                      + ReportedTokens(call.response, "output_tokens")
        /\ \A r \in {ret.standard, ret.value} :
              (Has(r, "usage") /\ BreaksSum(r.usage)) =>
                  /\ call.sourceFormat \notin {"anthropic", "gemini", UnknownTag}
                  /\ Has(call.response, "usage") /\ r.usage = call.response.usage

\* C12 witness: an Anthropic response with 10 input and 5 output tokens has
\* become a standard response with a total of 15.
C12_Witness ==
    /\ ResponseConverted
    /\ call.sourceFormat = "anthropic"
    /\ Has(call.response, "usage")
    /\ call.response.usage = [input_tokens |-> 10, output_tokens |-> 5]
    /\ ret.standard.usage.total_tokens = 15

\* The source response reports no usage.
NoUsage(response, format) ==
    IF format = "gemini" THEN ~Has(response, "usageMetadata")
    ELSE ~Has(response, "usage")

\* C13: for a source response without usage and any pair of supported
\* formats, convertResponse returns; the result has a usage of 0, 0 and 0 in
\* the OpenAI shape and input_tokens and output_tokens of 0 in the Anthropic
\* shape.
C13_NoUsageIsZero ==
    (/\ cpc = "returned" /\ call.fn = "convertResponse"
     /\ call.sourceFormat \in Protocols /\ call.targetFormat \in Protocols
     /\ NoUsage(call.response, call.sourceFormat)) =>
        /\ ~ret.threw
        /\ call.targetFormat \in {"openai", "openrouter"} =>
              Has(ret.value, "usage") /\ ret.value.usage = ZeroUsage
        /\ call.targetFormat = "anthropic" =>
              ret.value.usage = [input_tokens |-> 0, output_tokens |-> 0]

\* The text of the first content part of an Anthropic response, "" for none
SourceText(response) ==
    IF Has(response, "content") /\ response.content # <<>>
       /\ Has(response.content[1], "text")
    THEN response.content[1].text
    ELSE ""

\* The stop_reason of an Anthropic response, "stop" for none
SourceStop(response) ==
    IF Has(response, "stop_reason") /\ response.stop_reason # Null
    THEN response.stop_reason
    ELSE "stop"

\* C14: an Anthropic response translated to the OpenAI shape has exactly one
\* choice, with index 0, role assistant, the text of the first content part as
\* content ("" without one) and stop_reason as finish_reason ("stop" without
\* one); id and model are those of the source.
C14_AnthropicToOpenAI ==
    (/\ cpc = "returned" /\ call.fn = "convertResponse"
     /\ call.sourceFormat = "anthropic"
     /\ call.targetFormat \in {"openai", "openrouter"}) =>
        /\ ~ret.threw
        /\ ret.value.choices =
              <<[index |-> 0,
                 message |-> [role |-> "assistant", content |-> SourceText(call.response)],
                 finish_reason |-> SourceStop(call.response)]>>
        /\ Has(call.response, "id") =>
              ret.value.id = call.response.id /\ ret.value.model = call.response.model

\* C14 witness: Scenario B, the response msg_1 with the text "Hi", end_turn
\* and 10 and 5 tokens, has been translated.
C14_Witness ==
    /\ cpc = "returned" /\ call.fn = "convertResponse"
    /\ call.sourceFormat = "anthropic" /\ call.targetFormat = "openai"
    /\ call.response = AnthropicResponse(TRUE, <<[type |-> "text", text |-> "Hi"]>>,
                                         "end_turn",
                                         [input_tokens |-> 10, output_tokens |-> 5])
    /\ ret.value.id = "msg_1"
    /\ ret.value.choices[1].message.content = "Hi"
    /\ ret.value.choices[1].finish_reason = "end_turn"
    /\ ret.value.usage.total_tokens = 15

\* C15: convertRequest and convertResponse called with a source or a target
\* tag that is not supported fail and return nothing.
C15_UnsupportedTagFails ==
    (/\ cpc = "returned"
     /\ call.fn \in {"convertRequest", "convertResponse"}
     /\ (call.sourceFormat = UnknownTag \/ call.targetFormat = UnknownTag)) =>
        /\ ret.threw
        /\ ~Has(ret, "value")

----------------------------------------------------------------------------
(* The properties of handleRequest *)

\* A POST that passed every check of handleRequest, with a client format
\* that is not the platform's
NeedsConversion ==
    /\ hpc # "idle"
    /\ EarlyResponse(request).status = 0
    /\ PlatformFormat(PlatformOf(request)) # ClientFormatOf(request)

\* The platform was called and did not answer with a success.
UpstreamFailed ==
    sent # <<>> /\ via \in {"Platform API Error", "Internal Error"}

TableModel(platform, model) ==
    IF model \in {ClaudeSonnet4, ClaudeOpus4}
    THEN IF platform = "openrouter" THEN KimiFree ELSE KimiInstruct
    ELSE model

\* C17: a body sent to openrouter or groq for a request that names a model
\* has the model TableModel gives, on the same-format path and on the
\* conversion path.
C17_ModelMapped ==
    (/\ hpc # "idle" /\ sent # <<>>
     /\ PlatformOf(request) \in {"openrouter", "groq"}
     /\ Has(request.body, "model")) =>
        \A i \in 1..Len(sent) :
            ModelOr(sent[i]) = TableModel(PlatformOf(request), request.body.model)

\* C18: a body sent to groq has no max_tokens or one of at most 16384; a
\* supplied max_tokens of 1 to 16384 is sent to groq as it is; and a supplied
\* max_tokens of 1 or more is sent to any other platform as it is.
C18_GroqCeiling ==
    (hpc # "idle" /\ sent # <<>>) =>
        LET supplied == Supplied(request.body, ClientFormatOf(request), "max_tokens")
            groq == PlatformOf(request) = "groq"
        IN  \A i \in 1..Len(sent) :
                /\ groq => (~Has(sent[i], "max_tokens") \/ sent[i].max_tokens <= 16384)
                /\ (/\ supplied # <<>>
                    /\ supplied[1] >= 1
                    /\ groq => supplied[1] <= 16384) =>
                        Supplied(sent[i], PlatformFormat(PlatformOf(request)),
                                 "max_tokens") = supplied

\* C18 witness: an Anthropic client asked groq for 20000 tokens and 16384
\* were asked of groq.
C18_Witness ==
    /\ hpc # "idle" /\ Len(request.path) >= 2
    /\ PlatformOf(request) = "groq" /\ ClientFormatOf(request) = "anthropic"
    /\ Has(request.body, "max_tokens") /\ request.body.max_tokens = 20000
    /\ Len(sent) = 1 /\ sent[1].max_tokens = 16384

\* C19: removeCacheControlFromMessages returns messages without
\* cache_control as they are, returns the same for its own result, and returns
\* no content part with cache_control.
C19_StripIdempotent ==
    (cpc = "returned" /\ call.fn = "removeCacheControlFromMessages") =>
        /\ ~CarriesCacheControl([messages |-> call.messages]) =>
              ret.value = call.messages
        /\ ret.again = ret.value
        /\ ~CarriesCacheControl([messages |-> ret.value])

\* C19 witness: two messages with annotated parts went in, and came out
\* changed once and unchanged the second time.
C19_Witness ==
    /\ cpc = "returned" /\ call.fn = "removeCacheControlFromMessages"
    /\ call.messages = <<UserToolResult, AssistantCached>>
    /\ ret.value # call.messages
    /\ ret.again = ret.value

\* C20: once handleRequest is past the conversion of a request that needs
\* one, exactly one body has been handed to fetch, for every platform, and no
\* second one ever is.
C20_OneUpstreamRequest ==
    /\ Len(sent) <= 1
    /\ (NeedsConversion /\ hpc \in {"fetch", "responded"}) => Len(sent) = 1

\* The request carries a token: an Authorization header with more than the
\* Bearer prefix, or else one of the three keys
HasToken(req) ==
    LET c == req.credentials IN
    IF c.authorization # <<>> THEN c.authorization # <<"Bearer ">>
    ELSE c.apiKey # <<>> \/ c.googApiKey # <<>> \/ c.urlKey # <<>>

\* POST with /{platform}/{client_format} and, if there is more, a valid API path
Routed(req) ==
    /\ req.method = "POST"
    /\ Len(req.path) >= 2
    /\ Len(req.path) > 2 => IsValidApiPath(SubSeq(req.path, 3, Len(req.path)))

Supported(req) ==
    PlatformOf(req) \in Platforms /\ ClientFormatOf(req) \in Formats

----------------------------------------------------------------------------
(* The properties of the translated events *)

\* The document of a written data event in a sequence, empty for any other write
WrittenDoc(w) ==
    IF /\ Len(w) = Len(DataPrefix) + 3
       /\ StartsWith(w, DataPrefix)
       /\ Has(w[Len(DataPrefix) + 1], "json")
       /\ SubSeq(w, Len(w) - 1, Len(w)) = <<NL, NL>>
    THEN <<w[Len(DataPrefix) + 1].json>>
    ELSE <<>>

\* The standard chunk of a source line that is an event
StandardOf(l) == streamChunkToStandardFormat(JsonParse(Payload(l)), sourceFormat)

\* C22: for an Anthropic target, the write for a source event whose standard
\* chunk has content is one content_block_delta event, for one with a
\* finish_reason and no content one message_stop event, and for one with
\* neither nothing is written as an event.
C22_AnthropicTarget ==
    (targetFormat = "anthropic" /\ NoFailure) =>
        \A k \in 1..Len(writes) :
            LET l == OneBlockLines[k]
                d == WrittenDoc(writes[k].bytes)
            IN  IsEvent(l) =>
                    IF HasContent(StandardOf(l))
                    THEN /\ d # <<>> /\ Has(d[1], "type")
                         /\ d[1].type = "content_block_delta"
                    ELSE IF HasFinish(StandardOf(l))
                    THEN d = <<[type |-> "message_stop"]>>
                    ELSE d = <<>>

----------------------------------------------------------------------------
(* The properties of the translated requests *)

\* A call of convertRequest from a format with a case to the target has returned.
RequestConverted(target) ==
    /\ cpc = "returned" /\ call.fn = "convertRequest"
    /\ call.sourceFormat \in Protocols /\ call.targetFormat = target

\* The positions of the messages with role system
SystemPositions(messages) == {i \in 1..Len(messages) : messages[i].role = "system"}

RemoveAt(s, i) == SubSeq(s, 1, i - 1) \o SubSeq(s, i + 1, Len(s))

\* C23: for the Anthropic target, a system set in the standard request is the
\* top-level system; otherwise the content of the first message with role
\* system is, and that one message is removed while every other message stays
\* in its place; with neither there is no system field.
C23_SystemHoisted ==
    RequestConverted("anthropic") =>
        LET standard == ret.standard
            systems == SystemPositions(standard.messages)
        IN  IF TruthyContent(standard, "system")
            THEN Has(ret.value, "system") /\ ret.value.system = standard.system
            ELSE IF systems # {}
            THEN LET first == CHOOSE i \in systems : \A k \in systems : i <= k IN
                 /\ Has(ret.value, "system")
                 /\ ret.value.system = standard.messages[first].content
                 /\ ret.value.messages = RemoveAt(standard.messages, first)
            ELSE /\ ~Has(ret.value, "system")
                 /\ ret.value.messages = standard.messages

\* The messages reinsertion starts from: those of the request without cache_control
CleanedMessages ==
    removeCacheControlFromMessages(
        toStandardFormat(request.body, ClientFormatOf(request)).messages)

\* The position of the last message with role user, 0 without one
LastUser(messages) ==
    LET users == {i \in 1..Len(messages) : messages[i].role = "user"} IN
    IF users = {} THEN 0 ELSE CHOOSE u \in users : \A v \in users : v <= u

\* The positions of the text parts of an array content
TextParts(content) == {j \in 1..Len(content.arr) : content.arr[j].type = "text"}

HasTextPart(message) ==
    IsString(message.content)
    \/ (IsArray(message.content) /\ TextParts(message.content) # {})

\* The message with cache_control on its final text part, a string content
\* having become an array of one text part
FinalTextMarked(message) ==
    IF IsString(message.content)
    THEN [message EXCEPT !.content =
            Arr(<<[type |-> "text", text |-> message.content.str,
                   cache_control |-> Ephemeral]>>)]
    ELSE LET parts == TextParts(message.content)
             j == CHOOSE p \in parts : \A q \in parts : q <= p
         IN  [message EXCEPT !.content =
                 Arr([message.content.arr EXCEPT ![j] = With(@, "cache_control", Ephemeral)])]

\* C24: a body sent to OpenRouter for a request with the prompt-caching header
\* and a model of the Claude family, whose last user message has a text part,
\* has the cleaned messages with cache_control on exactly one part, the final
\* text part of the last user message, and nothing else changed.
C24_MarksFinalTextPart ==
    (/\ ToOpenRouter /\ sent # <<>>
     /\ request.anthropicBeta = PromptCaching
     /\ ModelOr(request.body) \in ClaudeFamily
     /\ LastUser(CleanedMessages) # 0
     /\ HasTextPart(CleanedMessages[LastUser(CleanedMessages)])) =>
        LET u == LastUser(CleanedMessages) IN
        sent[1].messages = [CleanedMessages EXCEPT ![u] = FinalTextMarked(@)]

----------------------------------------------------------------------------
(* The properties of the end of the stream and of the lines passed through *)

\* What follows the last newline of the source
Residual == Last(Split(OneBlockText))

C26_PassThrough ==
    NoFailure =>
        \A k \in 1..Len(writes) :
            LET l == OneBlockLines[k] IN
            /\ (StartsWith(l, DataPrefix) /\ Payload(l) \in {DoneSentinel, <<>>}) =>
                  /\ writes[k].site = "w894"
                  /\ writes[k].bytes = RawLines[k] \o <<NL, NL>>
            /\ (Trim(l) # <<>> /\ ~StartsWith(l, DataPrefix)) =>
                  /\ writes[k].site = "w914"
                  /\ writes[k].bytes = RawLines[k] \o <<NL>>

\* C26 witness: 'data: ', 'data: [DONE]' and 'event: x' have been written, the
\* first two with a blank line after them and the third with one newline.
C26_Witness ==
    /\ pc = "done" /\ NoFailure
    /\ stream = JoinLines(PassThroughLines, TRUE)
    /\ [k \in 1..Len(writes) |-> writes[k].bytes]
          = <<DataPrefix \o <<NL, NL>>, DoneLine \o <<NL, NL>>, EventLine \o <<NL>>>>

\* The Gemini event C27 states for a standard chunk with one choice
C27_Candidates(standard) ==
    <<[content |-> [parts |-> <<[text |-> IF HasContent(standard)
                                          THEN standard.choices[1].delta.content
                                          ELSE ""]>>,
                    role |-> "model"],
       finishReason |-> IF HasFinish(standard)
                        THEN ToUpperCase(standard.choices[1].finish_reason)
                        ELSE Null,
       index |-> 0]>>

\* The one standard choice C27 states for the first candidate of a Gemini chunk
C27_Choices(candidate) ==
    <<[index |-> 0,
       delta |-> [content |-> CandidateText(candidate)],
       finish_reason |-> IF Has(candidate, "finishReason")
                         THEN ToLowerCase(candidate.finishReason)
                         ELSE Null]>>

\* C27: for a Gemini target, the write for a source event whose standard chunk
\* has one choice is a Gemini event whose first candidate carries the delta
\* text and the upper-cased finish_reason, also when the chunk has a
\* finish_reason only; for a Gemini source, the first candidate becomes the one
\* choice of the standard chunk, with the finishReason in lower case.
C27_GeminiChunks ==
    NoFailure =>
        \A k \in 1..Len(writes) :
            LET l == OneBlockLines[k]
                d == WrittenDoc(writes[k].bytes)
            IN  IsEvent(l) =>
                /\ (targetFormat = "gemini" /\ Len(StandardOf(l).choices) = 1) =>
                      d = <<[candidates |-> C27_Candidates(StandardOf(l))]>>
                /\ (/\ sourceFormat = "gemini" /\ targetFormat = "openai"
                    /\ Has(JsonParse(Payload(l)), "candidates")) =>
                      /\ d # <<>>
                      /\ d[1].choices = C27_Choices(JsonParse(Payload(l)).candidates[1])

\* The platforms whose requests have the OpenAI shape
OpenAIShaped == {"openai", "openrouter", "groq"}

\* C28: the body sent to an OpenAI-shaped platform for an Anthropic client's
\* request with a top-level system text contains that text, as its system
\* field or as the content of a message with role system.
C28_SystemKept ==
    (/\ sent # <<>>
     /\ ClientFormatOf(request) = "anthropic"
     /\ PlatformOf(request) \in OpenAIShaped
     /\ TruthyContent(request.body, "system")) =>
        \/ Has(sent[1], "system") /\ sent[1].system = request.body.system
        \/ \E i \in 1..Len(sent[1].messages) :
              /\ sent[1].messages[i].role = "system"
              /\ sent[1].messages[i].content = request.body.system

\* Some event of the source carries a finish reason
SourceFinished ==
    \E k \in 1..Len(OneBlockLines) :
        IsEvent(OneBlockLines[k]) /\ HasFinish(StandardOf(OneBlockLines[k]))

\* C29: for an Anthropic target, a run that ends without a failure on a source
\* with an event that carries a finish reason, with or without content in the
\* same event, has written a message_stop event.
C29_FinishSignalled ==
    (pc = "done" /\ NoFailure /\ targetFormat = "anthropic" /\ SourceFinished) =>
        \E j \in 1..Len(writes) :
            WrittenDoc(writes[j].bytes) = <<[type |-> "message_stop"]>>

\* C30: close is called at most once and a run has ended if and only if it was
\* called; no write is pending when it is called, and once it has been called
\* nothing is written and the writer is not used again, whether the source
\* ended, a read failed or a write failed.
C30_ClosedOnceLast ==
    /\ [](/\ closeCalls <= 1
          /\ pc = "done" <=> closeCalls = 1
          /\ closeCalls = 1 => \A k \in 1..Len(writes) : writes[k].status # "pending")
    /\ [][closeCalls = 1 => UNCHANGED <<writes, writerState, closeCalls>>]_vars

\* C30 witness: a write failed, the three catch blocks wrote in vain, and the
\* run ended with the one close.
C30_Witness ==
    /\ pc = "done" /\ closeCalls = 1
    /\ writerState = "errored" /\ ~readFailed
    /\ Len(writes) >= 3
    /\ Last(writes).site = "w867"

=============================================================================
